---- MODULE Spec2Model ----
(***************************************************************************)
(* Model of pydoccoverage.py: configuration resolution, file discovery,    *)
(* per-file docstring analysis and the two report renderers, as driven by  *)
(* run().  Python strings that the code inspects (names, paths) are        *)
(* sequences of one-character strings; JSON values carry their type.       *)
(***************************************************************************)
EXTENDS Integers, Sequences, FiniteSets, TLC

VARIABLES CONFIG_DEFAULT, config, argv, py_files, file_data, idx, output, pc,
          runs, classes_doc_total, functions_doc_total, classes_total,
          functions_total

vars == <<CONFIG_DEFAULT, config, argv, py_files, file_data, idx, output, pc,
          runs, classes_doc_total, functions_doc_total, classes_total,
          functions_total>>

\* Bounds of the model.
MaxFiles == 2
MaxRuns == 2

-----------------------------------------------------------------------------
\* Python values as they come out of json.load.
Bool(b) == [type |-> "bool", val |-> b]
List(s) == [type |-> "list", val |-> s]
Str(s) == [type |-> "str", val |-> s]
Num(n) == [type |-> "int", val |-> n]

\* bool(v): the truth value Python's `and` / `if` take of v.
Truthy(v) ==
    CASE v.type = "bool" -> v.val
      [] v.type = "int" -> v.val # 0
      [] OTHER -> Len(v.val) > 0

\* `v is False`.
IsFalse(v) == v.type = "bool" /\ v.val = FALSE

\* str.startswith / str.endswith.
startswith(s, p) == Len(s) >= Len(p) /\ SubSeq(s, 1, Len(p)) = p
endswith(s, p) == Len(s) >= Len(p) /\ SubSeq(s, Len(s) - Len(p) + 1, Len(s)) = p

\* `item in container`: list membership, or substring search in a str.
Contains(container, item) ==
    IF container.type = "list"
    THEN \E i \in 1..Len(container.val) : container.val[i] = item
    ELSE \E i \in 0..(Len(container.val) - Len(item)) :
            SubSeq(container.val, i + 1, i + Len(item)) = item

\* dict item assignment d[k] = v.
SetItem(d, k, v) == [x \in DOMAIN d \cup {k} |-> IF x = k THEN v ELSE d[x]]

-----------------------------------------------------------------------------
CONFIG_EXCLUDE_FOLDERS == "exclude_folders"
CONFIG_EXCLUDE_FILES == "exclude_files"
CONFIG_SKIP_MAGIC == "skip_magic_funcs"
CONFIG_SKIP_PRIVATE == "skip_private_funcs"
CONFIG_REPORT_PERCENT_ONLY == "report_percent_only"
CONFIG_SKIP_MODULES == "skip_modules"
CONFIG_SKIP_CLASSES == "skip_classes"
CONFIG_SKIP_FUNCTIONS == "skip_functions"

CONFIG_FIELDS ==
    << CONFIG_EXCLUDE_FOLDERS, CONFIG_EXCLUDE_FILES, CONFIG_SKIP_MAGIC,
       CONFIG_SKIP_PRIVATE, CONFIG_REPORT_PERCENT_ONLY, CONFIG_SKIP_MODULES,
       CONFIG_SKIP_CLASSES, CONFIG_SKIP_FUNCTIONS >>

venv == <<"v", "e", "n", "v">>

\* The value CONFIG_DEFAULT is bound to when the module is imported.
ConfigDefaultLiteral ==
    [f \in {CONFIG_FIELDS[i] : i \in 1..Len(CONFIG_FIELDS)} |->
        CASE f = CONFIG_EXCLUDE_FOLDERS -> List(<<venv>>)
          [] f = CONFIG_EXCLUDE_FILES -> List(<<>>)
          [] f = CONFIG_SKIP_MAGIC -> Bool(TRUE)
          [] f = CONFIG_SKIP_PRIVATE -> Bool(TRUE)
          [] OTHER -> Bool(FALSE)]

RECURSIVE OverwriteFrom(_, _, _)
OverwriteFrom(base, new, i) ==
    IF i > Len(CONFIG_FIELDS) THEN base
    ELSE LET field == CONFIG_FIELDS[i]
         IN  IF field \in DOMAIN new
             THEN OverwriteFrom(SetItem(base, field, new[field]), new, i + 1)
             ELSE OverwriteFrom(base, new, i + 1)

\* A resolver that copies every key of the override.
RECURSIVE OverwriteAllKeys(_, _)
OverwriteAllKeys(base, new) ==
    IF DOMAIN new = {} THEN base
    ELSE LET k == CHOOSE x \in DOMAIN new : TRUE
         IN  OverwriteAllKeys(SetItem(base, k, new[k]),
                              [x \in DOMAIN new \ {k} |-> new[x]])

\* _overwrite_config(base, new): the dict `base` after the call (the code
\* mutates and returns the very object it was given).
_overwrite_config(base, new) == OverwriteFrom(base, new, 1)

-----------------------------------------------------------------------------
\* Rationals: the value of Python's true division a / b (b # 0), in lowest terms.
RECURSIVE GCD(_, _)
GCD(a, b) == IF b = 0 THEN a ELSE GCD(b, a % b)

max(a, b) == IF a >= b THEN a ELSE b

Div(a, b) == LET g == max(GCD(a, b), 1) IN [num |-> a \div g, den |-> b \div g]

\* f"{p * 100:.1f}": the printed number, in tenths (round half to even).
Fmt1(p) ==
    LET x == p.num * 1000
        q == x \div p.den
        r == x % p.den
    IN  IF 2 * r < p.den THEN q
        ELSE IF 2 * r > p.den THEN q + 1
        ELSE IF q % 2 = 0 THEN q ELSE q + 1

-----------------------------------------------------------------------------
\* ast.get_docstring: None, or the text of the docstring.
None == [isNone |-> TRUE]
Doc(text) == [isNone |-> FALSE, text |-> text]

ClassDef(name, lineno, docstring) ==
    [type |-> "ClassDef", name |-> name, lineno |-> lineno, docstring |-> docstring]
FunctionDef(name, lineno, docstring) ==
    [type |-> "FunctionDef", name |-> name, lineno |-> lineno, docstring |-> docstring]
AsyncFunctionDef(name, lineno, docstring) ==
    [type |-> "AsyncFunctionDef", name |-> name, lineno |-> lineno, docstring |-> docstring]

\* A source text: whether ast.parse accepts it, the module docstring, and the
\* class / function nodes in the order ast.walk yields them.
Source(parses, docstring, nodes) ==
    [parses |-> parses, docstring |-> docstring, nodes |-> nodes]

\* The dict literal _analyze_file starts from.
FileDataInitial ==
    [module_docstring |-> None,
     class_coverage |-> [documented |-> 0, total |-> 0, percentage |-> Div(1, 1)],
     function_coverage |-> [documented |-> 0, total |-> 0, percentage |-> Div(1, 1)],
     classes |-> <<>>,
     functions |-> <<>>]

Declaration(node) ==
    [name |-> node.name, line |-> node.lineno, docstring |-> node.docstring]

\* Whether the function node passes the two name filters of the walk.
KeepFunction(node, cfg) ==
    /\ ~(/\ Truthy(cfg[CONFIG_SKIP_MAGIC])
         /\ startswith(node.name, <<"_", "_">>)
         /\ endswith(node.name, <<"_", "_">>))
    /\ ~(Truthy(cfg[CONFIG_SKIP_PRIVATE]) /\ startswith(node.name, <<"_">>))

\* The loop over ast.walk(ast_tree), from node i on.
RECURSIVE WalkFrom(_, _, _, _)
WalkFrom(nodes, i, cfg, data) ==
    IF i > Len(nodes) THEN data
    ELSE LET node == nodes[i]
             d1 == IF node.type = "ClassDef"
                   THEN [data EXCEPT !.classes = Append(@, Declaration(node))]
                   ELSE data
             d2 == IF /\ node.type \in {"FunctionDef", "AsyncFunctionDef"}
                      /\ KeepFunction(node, cfg)
                   THEN [d1 EXCEPT !.functions = Append(@, Declaration(node))]
                   ELSE d1
         IN  WalkFrom(nodes, i + 1, cfg, d2)

\* count_matching(iterable, lambda a: a["docstring"] is not None).
count_matching(iterable) ==
    << Cardinality({i \in 1..Len(iterable) : ~iterable[i].docstring.isNone}) >>

\* The coverage dict _analyze_file builds for one list of declarations.
Coverage(decls) ==
    LET documented == count_matching(decls)
        total == Len(decls)
    IN  [documented |-> documented[1],
         total |-> total,
         percentage |-> Div(documented[1], max(total, 1))]

\* _analyze_file on a source that parses.
_analyze_file(source, cfg) ==
    LET walked == WalkFrom(source.nodes, 1, cfg,
                           [FileDataInitial EXCEPT !.module_docstring = source.docstring])
    IN  [walked EXCEPT !.class_coverage = Coverage(walked.classes),
                       !.function_coverage = Coverage(walked.functions)]

-----------------------------------------------------------------------------
\* os.path.join of the walked directory and a file name.
RECURSIVE JoinPath(_, _)
JoinPath(dirs, name) ==
    IF dirs = <<>> THEN name
    ELSE Head(dirs) \o <<"/">> \o JoinPath(Tail(dirs), name)

RECURSIVE SelectFiles(_, _, _)
SelectFiles(tree, i, cfg) ==
    IF i > Len(tree) THEN <<>>
    ELSE LET e == tree[i]
             visited == \A k \in 1..Len(e.dirs) :
                            ~Contains(cfg[CONFIG_EXCLUDE_FOLDERS], e.dirs[k])
             taken == /\ visited
                      /\ endswith(e.name, <<".", "p", "y">>)
                      /\ ~Contains(cfg[CONFIG_EXCLUDE_FILES], e.name)
         IN  (IF taken THEN <<JoinPath(e.dirs, e.name)>> ELSE <<>>)
                \o SelectFiles(tree, i + 1, cfg)

\* _collect_python_files: the tree is the files under the root in os.walk
\* order, each with the directories on its way down from the root.
_collect_python_files(root_folder, cfg) == SelectFiles(root_folder, 1, cfg)

\* open(file_path).read()
ReadFile(tree, file_path) ==
    LET i == CHOOSE k \in 1..Len(tree) : JoinPath(tree[k].dirs, tree[k].name) = file_path
    IN  tree[i].source

-----------------------------------------------------------------------------
\* Report rendering.  A printed line is a record of what print() was given.

\* A file_reports list built without looking at skip_classes.
ViolationsUngatedClasses(fd, cfg) ==
    LET Missing(what, decls) ==
            LET undocumented == SelectSeq(decls, LAMBDA d : d.docstring.isNone)
            IN  [i \in 1..Len(undocumented) |->
                    [what |-> what, line |-> undocumented[i].line,
                     name |-> undocumented[i].name]]
    IN  (IF IsFalse(cfg[CONFIG_SKIP_MODULES]) /\ fd.module_docstring.isNone
         THEN << [what |-> "module"] >> ELSE <<>>)
        \o Missing("class", fd.classes)
        \o (IF IsFalse(cfg[CONFIG_SKIP_FUNCTIONS])
            THEN Missing("function", fd.functions) ELSE <<>>)

\* The file_reports list _report_all builds for one file.
Violations(fd, cfg) ==
    LET module_reports ==
            IF /\ IsFalse(cfg[CONFIG_SKIP_MODULES])
               /\ fd.module_docstring.isNone /\ IsFalse(cfg[CONFIG_SKIP_MODULES])
            THEN << [what |-> "module"] >>
            ELSE <<>>
        Missing(what, decls) ==
            LET undocumented == SelectSeq(decls, LAMBDA d : d.docstring.isNone)
            IN  [i \in 1..Len(undocumented) |->
                    [what |-> what, line |-> undocumented[i].line,
                     name |-> undocumented[i].name]]
        class_reports ==
            IF IsFalse(cfg[CONFIG_SKIP_CLASSES])
            THEN Missing("class", fd.classes) ELSE <<>>
        function_reports ==
            IF IsFalse(cfg[CONFIG_SKIP_FUNCTIONS])
            THEN Missing("function", fd.functions) ELSE <<>>
    IN  module_reports \o class_reports \o function_reports

\* What one file adds to the four running totals of _report_all.
Tally(fd, cfg) ==
    [classes_total |->
        IF IsFalse(cfg[CONFIG_SKIP_CLASSES]) THEN Len(fd.classes) ELSE 0,
     classes_doc_total |->
        IF IsFalse(cfg[CONFIG_SKIP_CLASSES])
        THEN Len(SelectSeq(fd.classes, LAMBDA d : ~d.docstring.isNone)) ELSE 0,
     functions_total |->
        IF IsFalse(cfg[CONFIG_SKIP_FUNCTIONS]) THEN Len(fd.functions) ELSE 0,
     functions_doc_total |->
        IF IsFalse(cfg[CONFIG_SKIP_FUNCTIONS])
        THEN Len(SelectSeq(fd.functions, LAMBDA d : ~d.docstring.isNone)) ELSE 0]

CovLine(cov) ==
    [documented |-> cov.documented, total |-> cov.total,
     percent |-> Fmt1(cov.percentage)]

\* What _report_all prints for one file: its section, if it has reports.
SectionPrints(file_name, fd, file_reports) ==
    IF file_reports # <<>>
    THEN << [kind |-> "section",
             file_name |-> file_name,
             class_cov_line |-> CovLine(fd.class_coverage),
             func_cov_line |-> CovLine(fd.function_coverage),
             rule |-> Len(file_name),
             reports |-> file_reports] >>
    ELSE <<>>

\* The three prints at the end of _report_all (both totals non-zero).
TotalPrints(cd, ct, fd, ft) ==
    << [kind |-> "total_header"],
       [kind |-> "total_classes", documented |-> cd, total |-> ct,
        percent |-> Fmt1(Div(cd, ct))],
       [kind |-> "total_functions", documented |-> fd, total |-> ft,
        percent |-> Fmt1(Div(fd, ft))] >>

\* A percent-only line that shows the class total in the functions column.
PercentOnlyLineMixed(file_name, fd) ==
    [kind |-> "percent_only",
     file_name |-> file_name,
     class_doc |-> fd.class_coverage.documented,
     class_total |-> fd.class_coverage.total,
     class_perc |-> Fmt1(fd.class_coverage.percentage),
     func_doc |-> fd.function_coverage.documented,
     func_total |-> fd.class_coverage.total,
     func_perc |-> Fmt1(fd.function_coverage.percentage)]

\* The line _report_percent_only prints for one file.
PercentOnlyLine(file_name, fd) ==
    [kind |-> "percent_only",
     file_name |-> file_name,
     class_doc |-> fd.class_coverage.documented,
     class_total |-> fd.class_coverage.total,
     class_perc |-> Fmt1(fd.class_coverage.percentage),
     func_doc |-> fd.function_coverage.documented,
     func_total |-> fd.function_coverage.total,
     func_perc |-> Fmt1(fd.function_coverage.percentage)]

\* A parser whose failure is swallowed, the file treated as an empty module.
ParseErrorSwallowed(source) == "none"

\* ast.parse: the exception it raises on the source, if any.
ParseError(source) == IF source.parses THEN "none" ELSE "SyntaxError"

-----------------------------------------------------------------------------
\* Inputs: the files under the root folder and the configuration document.

init == <<"_", "_", "i", "n", "i", "t", "_", "_">>
a_py == <<"a", ".", "p", "y">>
b_py == <<"b", ".", "p", "y">>
m_py == <<"m", ".", "p", "y">>
bad_py == <<"b", "a", "d", ".", "p", "y">>
v_py == <<"v", ".", "p", "y">>
notes_txt == <<"n", ".", "t", "x", "t">>

File(dirs, name, source) == [dirs |-> dirs, name |-> name, source |-> source]

Files ==
    { File(<<>>, a_py, Source(TRUE, Doc("a"),
            << ClassDef(<<"C">>, 1, None),
               FunctionDef(<<"f", "o", "o">>, 3, Doc("foo")) >>)),
      File(<<>>, b_py, Source(TRUE, Doc("b"), <<>>)),
      File(<<>>, m_py, Source(TRUE, Doc("m"),
            << ClassDef(<<"K">>, 1, Doc("K")),
               FunctionDef(init, 2, Doc("init")),
               FunctionDef(<<"_", "p">>, 4, None),
               AsyncFunctionDef(<<"g">>, 6, Doc("")) >>)),
      File(<<>>, bad_py, Source(FALSE, None, <<>>)),
      File(<<venv>>, v_py, Source(TRUE, None,
            << FunctionDef(init, 1, None),
               FunctionDef(<<"r", "u", "n">>, 3, None) >>)),
      File(<<>>, notes_txt, Source(FALSE, None, <<>>)) }

\* The directory trees: up to n distinct files, in every walk order.
RECURSIVE TreesOfLen(_)
TreesOfLen(n) ==
    IF n = 0 THEN {<<>>}
    ELSE {Append(t, f) : t \in TreesOfLen(n - 1), f \in Files} 

NoRepeat(t) == \A i, j \in 1..Len(t) : i # j => t[i] # t[j]

Trees == UNION {{t \in TreesOfLen(n) : NoRepeat(t)} : n \in 0..MaxFiles}

FieldSet == {CONFIG_FIELDS[i] : i \in 1..Len(CONFIG_FIELDS)}
Flags == FieldSet \ {CONFIG_EXCLUDE_FOLDERS, CONFIG_EXCLUDE_FILES}

\* One key of a configuration document with a value JSON can give it.
Settings ==
    {[key |-> CONFIG_EXCLUDE_FOLDERS, value |-> v] : v \in {List(<<>>), Str(venv)}}
    \cup {[key |-> CONFIG_EXCLUDE_FILES, value |-> List(<<b_py>>)]}
    \cup {[key |-> k, value |-> v] : k \in Flags, v \in {Bool(TRUE), Bool(FALSE), Num(0)}}
    \cup {[key |-> "verbose", value |-> Bool(TRUE)]}

\* Settings that differ from the defaults, which documents combine in pairs.
Combined ==
    {s \in Settings :
        \/ s.key \notin FieldSet
        \/ s.value.type \in {"bool", "list"} /\ s.value # ConfigDefaultLiteral[s.key]}

Document(settings) ==
    [k \in {s.key : s \in settings} |-> (CHOOSE s \in settings : s.key = k).value]

Documents ==
    {Document({})}
    \cup {Document({s}) : s \in Settings}
    \cup {Document({p[1], p[2]}) :
            p \in {q \in Combined \X Combined : q[1].key # q[2].key}}

\* sys.argv[2]: a document json.load returns, or nothing that loads.
ConfFiles == {[ok |-> FALSE]} \cup {[ok |-> TRUE, doc |-> d] : d \in Documents}

-----------------------------------------------------------------------------
Terminal == {"done", "SyntaxError", "ZeroDivisionError"}

Init ==
    /\ CONFIG_DEFAULT = ConfigDefaultLiteral
    /\ config = ConfigDefaultLiteral
    /\ argv = [root |-> <<>>, conf |-> [ok |-> FALSE]]
    /\ py_files = <<>>
    /\ file_data = <<>>
    /\ idx = 1
    /\ output = <<>>
    /\ pc = "idle"
    /\ runs = 0
    /\ classes_doc_total = 0
    /\ functions_doc_total = 0
    /\ classes_total = 0
    /\ functions_total = 0

\* run(), up to the loop over py_files.  `config = CONFIG_DEFAULT` binds the
\* module's dict itself, so the overwrite is seen through both names.
RunBody(conf, root) ==
    LET resolved == IF conf.ok THEN _overwrite_config(CONFIG_DEFAULT, conf.doc)
                    ELSE CONFIG_DEFAULT
    IN  /\ argv' = [root |-> root, conf |-> conf]
        /\ CONFIG_DEFAULT' = resolved
        /\ config' = resolved
        /\ py_files' = _collect_python_files(root, resolved)
        /\ file_data' = <<>>
        /\ idx' = 1
        /\ output' = <<>>
        /\ pc' = "analyze"
        /\ runs' = runs + 1
        /\ UNCHANGED <<classes_doc_total, functions_doc_total, classes_total,
                       functions_total>>

Run == \E conf \in ConfFiles, root \in Trees : pc = "idle" /\ RunBody(conf, root)

\* One iteration of `for file in py_files: file_data[file] = _analyze_file(...)`.
AnalyzeFile ==
    /\ pc = "analyze"
    /\ idx <= Len(py_files)
    /\ LET file == py_files[idx]
           source == ReadFile(argv.root, file)
       IN  IF ParseError(source) # "none"
           THEN /\ pc' = ParseError(source)
                /\ UNCHANGED <<file_data, idx>>
           ELSE /\ file_data' = Append(file_data,
                        [file_name |-> file, data |-> _analyze_file(source, config)])
                /\ idx' = idx + 1
                /\ pc' = pc
    /\ UNCHANGED <<CONFIG_DEFAULT, config, argv, py_files, output, runs,
                   classes_doc_total, functions_doc_total, classes_total,
                   functions_total>>

\* _report_data: the call into one of the two renderers.
ReportData ==
    /\ pc = "analyze"
    /\ idx > Len(py_files)
    /\ pc' = IF Truthy(config[CONFIG_REPORT_PERCENT_ONLY])
             THEN "report_percent_only" ELSE "report_all"
    /\ idx' = 1
    /\ classes_doc_total' = 0
    /\ functions_doc_total' = 0
    /\ classes_total' = 0
    /\ functions_total' = 0
    /\ UNCHANGED <<CONFIG_DEFAULT, config, argv, py_files, file_data, output, runs>>

\* One iteration of the loop of _report_all.
ReportAllFile ==
    /\ pc = "report_all"
    /\ idx <= Len(file_data)
    /\ LET file_name == file_data[idx].file_name
           fd == file_data[idx].data
           tally == Tally(fd, config)
       IN  /\ classes_total' = classes_total + tally.classes_total
           /\ classes_doc_total' = classes_doc_total + tally.classes_doc_total
           /\ functions_total' = functions_total + tally.functions_total
           /\ functions_doc_total' = functions_doc_total + tally.functions_doc_total
           /\ output' = output \o SectionPrints(file_name, fd, Violations(fd, config))
    /\ idx' = idx + 1
    /\ UNCHANGED <<CONFIG_DEFAULT, config, argv, py_files, file_data, pc, runs>>

\* The end of _report_all: the two percentages, then the three prints.
ReportAllTotal ==
    /\ pc = "report_all"
    /\ idx > Len(file_data)
    /\ IF classes_total = 0 \/ functions_total = 0
       THEN /\ pc' = "ZeroDivisionError"
            /\ UNCHANGED output
       ELSE /\ output' = output \o TotalPrints(classes_doc_total, classes_total,
                                               functions_doc_total, functions_total)
            /\ pc' = "done"
    /\ UNCHANGED <<CONFIG_DEFAULT, config, argv, py_files, file_data, idx, runs,
                   classes_doc_total, functions_doc_total, classes_total,
                   functions_total>>

\* One iteration of the loop of _report_percent_only.
ReportPercentOnlyFile ==
    /\ pc = "report_percent_only"
    /\ idx <= Len(file_data)
    /\ output' = Append(output,
                    PercentOnlyLine(file_data[idx].file_name, file_data[idx].data))
    /\ idx' = idx + 1
    /\ UNCHANGED <<CONFIG_DEFAULT, config, argv, py_files, file_data, pc, runs,
                   classes_doc_total, functions_doc_total, classes_total,
                   functions_total>>

\* _report_percent_only returns.
ReportPercentOnlyReturn ==
    /\ pc = "report_percent_only"
    /\ idx > Len(file_data)
    /\ pc' = "done"
    /\ UNCHANGED <<CONFIG_DEFAULT, config, argv, py_files, file_data, idx, output,
                   runs, classes_doc_total, functions_doc_total, classes_total,
                   functions_total>>

Next ==
    \/ Run
    \/ AnalyzeFile
    \/ ReportData
    \/ ReportAllFile
    \/ ReportAllTotal
    \/ ReportPercentOnlyFile
    \/ ReportPercentOnlyReturn

\* One invocation of the program.
Spec == Init /\ [][Next]_vars

\* The inputs of a process that calls run() repeatedly: documents of at most
\* one key, roots of at most one file.
ProcessConfFiles ==
    {c \in ConfFiles : c.ok => Cardinality(DOMAIN c.doc) <= 1}
ProcessTrees == {t \in Trees : Len(t) <= 1}

\* run() called in a process where earlier calls may have returned or raised:
\* the module, and with it CONFIG_DEFAULT, is the same.
RunInProcess ==
    \E conf \in ProcessConfFiles, root \in ProcessTrees :
        pc \in Terminal \cup {"idle"} /\ runs < MaxRuns /\ RunBody(conf, root)

NextProcess ==
    \/ RunInProcess
    \/ AnalyzeFile
    \/ ReportData
    \/ ReportAllFile
    \/ ReportAllTotal
    \/ ReportPercentOnlyFile
    \/ ReportPercentOnlyReturn

\* A process that may invoke the program more than once.
SpecProcess == Init /\ [][NextProcess]_vars

-----------------------------------------------------------------------------
\* Properties.

\* What the source of an analysed file declares, read off its nodes.
SourceOf(file_name) == ReadFile(argv.root, file_name)
ClassNodes(src) == {i \in 1..Len(src.nodes) : src.nodes[i].type = "ClassDef"}
FunctionNodes(src) ==
    {i \in 1..Len(src.nodes) :
        src.nodes[i].type \in {"FunctionDef", "AsyncFunctionDef"}}
ExtractedFunctionNodes(src) ==
    {i \in FunctionNodes(src) : KeepFunction(src.nodes[i], config)}
Documented(src, S) == {i \in S : ~src.nodes[i].docstring.isNone}

Started == pc # "idle"
DetailedMode == Started /\ config[CONFIG_REPORT_PERCENT_ONLY] = Bool(FALSE)
PercentOnlyMode == Started /\ config[CONFIG_REPORT_PERCENT_ONLY] = Bool(TRUE)
Off(flag) == config[flag] = Bool(FALSE)
On(flag) == config[flag] = Bool(TRUE)
TogglesBoolean ==
    \A f \in {CONFIG_SKIP_MODULES, CONFIG_SKIP_CLASSES, CONFIG_SKIP_FUNCTIONS} :
        config[f].type = "bool"

RECURSIVE Sum(_)
Sum(numbers) == IF numbers = <<>> THEN 0 ELSE Head(numbers) + Sum(Tail(numbers))

\* Whether the file has a violation under the active toggles.
HasViolation(file_name) ==
    LET src == SourceOf(file_name)
    IN  \/ Off(CONFIG_SKIP_MODULES) /\ src.docstring.isNone
        \/ Off(CONFIG_SKIP_CLASSES)
            /\ Documented(src, ClassNodes(src)) # ClassNodes(src)
        \/ Off(CONFIG_SKIP_FUNCTIONS)
            /\ Documented(src, ExtractedFunctionNodes(src)) # ExtractedFunctionNodes(src)

FullyDocumented(file_name) ==
    LET src == SourceOf(file_name)
    IN  /\ ~src.docstring.isNone
        /\ Documented(src, ClassNodes(src)) = ClassNodes(src)
        /\ Documented(src, ExtractedFunctionNodes(src)) = ExtractedFunctionNodes(src)

SectionsOf(file_name) ==
    {i \in 1..Len(output) :
        output[i].kind = "section" /\ output[i].file_name = file_name}

\* C1: in detailed mode the rendering of the running total never raises;
\* a zero class or function total does not end _report_all in a
\* division-by-zero failure.
C1_TotalNeverRaises == DetailedMode => pc # "ZeroDivisionError"

\* C2: resolving a configuration leaves CONFIG_DEFAULT at its eight default
\* values, and a resolution with an empty override yields exactly the
\* defaults, whatever runs came before.
C2_DefaultUnchanged ==
    /\ CONFIG_DEFAULT = ConfigDefaultLiteral
    /\ (Started /\ argv.conf.ok /\ DOMAIN argv.conf.doc = {})
            => config = ConfigDefaultLiteral

\* C3: for every analysed file declaring a function __init__ and every setting
\* of the other flags: with skip_magic_funcs = true it is absent from the
\* functions list and the function counts; with skip_magic_funcs = false it is
\* in the list and counted in total (and in documented when it has a docstring).
C3_MagicFlagDecidesInit ==
    \A k \in 1..Len(file_data) :
        LET src == SourceOf(file_data[k].file_name)
            fd == file_data[k].data
            inits == {i \in FunctionNodes(src) : src.nodes[i].name = init}
            others == FunctionNodes(src) \ inits
            listed(i) == \E j \in 1..Len(fd.functions) :
                            fd.functions[j] = Declaration(src.nodes[i])
        IN  /\ On(CONFIG_SKIP_MAGIC) =>
                /\ \A i \in inits : ~listed(i)
                /\ fd.function_coverage.total <= Cardinality(others)
                /\ fd.function_coverage.documented
                        <= Cardinality(Documented(src, others))
            /\ Off(CONFIG_SKIP_MAGIC) =>
                /\ \A i \in inits : listed(i)
                /\ fd.function_coverage.total >= Cardinality(inits)
                /\ fd.function_coverage.documented
                        >= Cardinality(Documented(src, inits))

\* C4: a syntax error in any discovered file aborts the run with nothing
\* printed, and nothing is printed before every discovered file has been
\* analysed successfully.
C4_NoPartialReport ==
    /\ pc \in {"analyze", "SyntaxError"} => output = <<>>
    /\ output # <<>> =>
        /\ Len(file_data) = Len(py_files)
        /\ \A i \in 1..Len(py_files) :
            /\ SourceOf(py_files[i]).parses
            /\ file_data[i].file_name = py_files[i]

C4_Witness ==
    /\ pc = "SyntaxError"
    /\ Len(file_data) >= 1
    /\ \E k \in 1..Len(file_data) : HasViolation(file_data[k].file_name)


\* The claimed shape of one coverage dict over its list of declarations.
StatOk(cov, decls) ==
    LET documented == Cardinality({i \in 1..Len(decls) : ~decls[i].docstring.isNone})
    IN  /\ 0 <= cov.documented /\ cov.documented <= cov.total
        /\ cov.documented = documented
        /\ cov.total = Len(decls)
        /\ cov.total > 0 => cov.percentage = Div(cov.documented, cov.total)
        /\ cov.total = 0 => cov.percentage = Div(1, 1)
        /\ 0 <= cov.percentage.num /\ cov.percentage.num <= cov.percentage.den

\* C5: every coverage dict _analyze_file produces has 0 <= documented <= total,
\* documented and total equal to the counts over the extracted list,
\* percentage = documented / total when total > 0 and 1.0 when total = 0.
C5_CoverageStat ==
    \A k \in 1..Len(file_data) :
        LET fd == file_data[k].data
        IN  /\ StatOk(fd.class_coverage, fd.classes)
            /\ StatOk(fd.function_coverage, fd.functions)

WellTyped(field, value) ==
    IF field \in {CONFIG_EXCLUDE_FOLDERS, CONFIG_EXCLUDE_FILES}
    THEN value.type = "list"
    ELSE value.type = "bool"

\* C6: a recognized key of the override is applied only when its value has the
\* field's type; present with a value of another type, the field keeps its
\* default.
C6_OnlyWellTypedApplied ==
    (Started /\ argv.conf.ok) =>
        \A f \in FieldSet :
            config[f] = IF f \in DOMAIN argv.conf.doc /\ WellTyped(f, argv.conf.doc[f])
                        THEN argv.conf.doc[f]
                        ELSE ConfigDefaultLiteral[f]

\* C7: in detailed mode the run ends with the 'Total Coverage' prints, whose
\* class (function) documented / total are the sums of the per-file
\* class_coverage (function_coverage) over every analysed file when
\* skip_classes (skip_functions) is false, and zero when it is true.
C7_TotalAggregatesAllFiles ==
    (DetailedMode /\ pc \in {"done", "ZeroDivisionError"} /\ TogglesBoolean) =>
        LET n == Len(output)
            Over(cov, field) ==
                Sum([k \in 1..Len(file_data) |-> file_data[k].data[cov][field]])
            cd == IF Off(CONFIG_SKIP_CLASSES) THEN Over("class_coverage", "documented") ELSE 0
            ct == IF Off(CONFIG_SKIP_CLASSES) THEN Over("class_coverage", "total") ELSE 0
            fdoc == IF Off(CONFIG_SKIP_FUNCTIONS) THEN Over("function_coverage", "documented") ELSE 0
            ft == IF Off(CONFIG_SKIP_FUNCTIONS) THEN Over("function_coverage", "total") ELSE 0
        IN  /\ Len(file_data) = Len(py_files)
            /\ n >= 3
            /\ output[n - 2].kind = "total_header"
            /\ output[n - 1].kind = "total_classes"
            /\ output[n - 1].documented = cd /\ output[n - 1].total = ct
            /\ ct > 0 => output[n - 1].percent = Fmt1(Div(cd, ct))
            /\ output[n].kind = "total_functions"
            /\ output[n].documented = fdoc /\ output[n].total = ft
            /\ ft > 0 => output[n].percent = Fmt1(Div(fdoc, ft))

\* C8: in detailed mode a file the renderer has gone over has a section if and
\* only if it has a violation under the active toggles (and then one section,
\* listing at least one violation); in percent-only mode a fully documented
\* file still gets its line, with 100.0% for every category with total > 0.
C8_SectionIffViolation ==
    /\ (DetailedMode /\ pc \in {"report_all", "done", "ZeroDivisionError"}
            /\ TogglesBoolean) =>
        /\ \A k \in 1..(idx - 1) :
            LET name == file_data[k].file_name
            IN  /\ HasViolation(name) => Cardinality(SectionsOf(name)) = 1
                /\ ~HasViolation(name) => SectionsOf(name) = {}
        /\ \A i \in 1..Len(output) :
            output[i].kind = "section" => Len(output[i].reports) >= 1
    /\ (PercentOnlyMode /\ pc \in {"report_percent_only", "done"}) =>
        \A k \in 1..(idx - 1) :
            FullyDocumented(file_data[k].file_name) =>
                /\ output[k].kind = "percent_only"
                /\ output[k].file_name = file_data[k].file_name
                /\ output[k].class_total > 0 => output[k].class_perc = 1000
                /\ output[k].func_total > 0 => output[k].func_perc = 1000

C8_Witness ==
    /\ DetailedMode /\ pc \in {"done", "ZeroDivisionError"} /\ On(CONFIG_SKIP_CLASSES)
    /\ \E k, l \in 1..Len(file_data) :
        /\ FullyDocumented(file_data[k].file_name)
        /\ file_data[k].data.class_coverage.total > 0
        /\ SectionsOf(file_data[k].file_name) = {}
        /\ file_data[l].data.class_coverage.documented
                < file_data[l].data.class_coverage.total
        /\ SectionsOf(file_data[l].file_name) = {}

\* C9: in percent-only mode the output is one line per discovered file, in
\* discovery order, with or without violations; each line shows the file's
\* class and function documented / total / percentage, the same under every
\* setting of skip_modules, skip_classes and skip_functions; nothing else is
\* printed.
C9_PercentOnlyLines ==
    (PercentOnlyMode /\ pc \in {"report_percent_only", "done"}) =>
        /\ Len(file_data) = Len(py_files)
        /\ Len(output) = idx - 1
        /\ pc = "done" => Len(output) = Len(py_files)
        /\ \A i \in 1..Len(output) :
            LET src == SourceOf(py_files[i])
                line == output[i]
            IN  /\ line.kind = "percent_only"
                /\ line.file_name = py_files[i]
                /\ line.class_total = Cardinality(ClassNodes(src))
                /\ line.class_doc = Cardinality(Documented(src, ClassNodes(src)))
                /\ line.func_total = Cardinality(ExtractedFunctionNodes(src))
                /\ line.func_doc =
                        Cardinality(Documented(src, ExtractedFunctionNodes(src)))
                /\ line.class_perc = Fmt1(file_data[i].data.class_coverage.percentage)
                /\ line.func_perc = Fmt1(file_data[i].data.function_coverage.percentage)

C9_Witness ==
    /\ PercentOnlyMode /\ pc = "done" /\ On(CONFIG_SKIP_FUNCTIONS)
    /\ Len(output) = 2
    /\ HasViolation(py_files[1])
    /\ FullyDocumented(py_files[2])

\* C10: unrecognized override keys are a no-op: the resolved configuration has
\* the eight recognized keys and no other, each recognized field has the value
\* the override gives it or else its default, which is what resolving the
\* override restricted to the recognized keys gives.
C10_UnrecognizedKeysNoOp ==
    (Started /\ argv.conf.ok) =>
        LET doc == argv.conf.doc
            restricted == [k \in DOMAIN doc \cap FieldSet |-> doc[k]]
        IN  /\ DOMAIN config = FieldSet
            /\ \A f \in FieldSet :
                config[f] = IF f \in DOMAIN doc THEN doc[f] ELSE ConfigDefaultLiteral[f]
            /\ config = _overwrite_config(ConfigDefaultLiteral, restricted)

C10_Witness ==
    /\ Started /\ argv.conf.ok
    /\ "verbose" \in DOMAIN argv.conf.doc
    /\ CONFIG_SKIP_PRIVATE \in DOMAIN argv.conf.doc
    /\ config[CONFIG_SKIP_PRIVATE] = Bool(FALSE)

====
